---- MODULE Spec2Model ----
(***************************************************************************)
(* pdns-webhook: the external-dns webhook provider for PowerDNS.           *)
(*                                                                         *)
(* The model covers the write path POST /records (handlers.rs              *)
(* apply_changes, pdns.rs upsert / delete / zone_for / patch_zone /        *)
(* build_rrset and the string helpers they use) and the read path          *)
(* GET /records (handlers.rs get_records, pdns.rs list_endpoints /         *)
(* list_zones / get_zone) against a PowerDNS backend that holds zones and  *)
(* their RRsets.                                                           *)
(*                                                                         *)
(*   Spec      one POST /records request                                   *)
(*   SpecRetry one POST /records request and its re-submission             *)
(*   SpecPair  two POST /records requests handled at once                  *)
(*   SpecRead  one GET /records request                                    *)
(*   SpecConv  normalise_target, build_rrset and the RRset-to-endpoint     *)
(*             conversion applied to enumerated arguments                  *)
(*                                                                         *)
(* Strings are sequences of one-character strings, so that trimming,       *)
(* splitting, joining and suffix tests are computed as the code computes   *)
(* them.  Every await of the handler on a backend call is one step.        *)
(***************************************************************************)
EXTENDS Integers, Sequences, FiniteSets, TLC

\* ------------------------------------------------------------------ bounds
\* Largest number of endpoints in one POST /records body (all four lists).
MaxEntries == 2
\* Largest number of space-separated fields of a target string under conversion.
MaxFields == 3
\* Largest number of targets of an endpoint under conversion.
MaxTargets == 2
\* Largest number of RRsets a zone holds when the catalog is read.
MaxRrsets == 2
\* Largest number of endpoints in one POST /adjustendpoints body.
MaxEndpoints == 2

\* ------------------------------------------------------- program constants
\* config.rs default_ttl(): the TTL used when an endpoint carries none.
DEFAULT_TTL == 300
\* u16::MAX, the largest SvcPriority parse::<u16>() accepts.
U16_MAX == 65535
\* handlers.rs apply_changes: the status of every failure answer.
BAD_GATEWAY == 502
\* handlers.rs apply_changes: StatusCode::NO_CONTENT.
NO_CONTENT == 204
\* handlers.rs get_records: StatusCode::INTERNAL_SERVER_ERROR.
INTERNAL_SERVER_ERROR == 500
\* handlers.rs get_records: the status of (webhook_headers(), Json(eps)).
OK == 200

\* ------------------------------------------------------------ Rust strings
Digits == <<"0", "1", "2", "3", "4", "5", "6", "7", "8", "9">>

IsDigit(ch) == \E d \in 1..10 : Digits[d] = ch

DigitValue(ch) == (CHOOSE d \in 1..10 : Digits[d] = ch) - 1

\* str::ends_with(char)
ends_with(s, ch) == Len(s) > 0 /\ s[Len(s)] = ch

\* str::trim_end_matches(char): drops every trailing occurrence
RECURSIVE trim_end_matches(_, _)
trim_end_matches(s, ch) ==
    IF ends_with(s, ch) THEN trim_end_matches(SubSeq(s, 1, Len(s) - 1), ch) ELSE s

RECURSIVE trim_start_matches(_, _)
trim_start_matches(s, ch) ==
    IF Len(s) > 0 /\ s[1] = ch THEN trim_start_matches(Tail(s), ch) ELSE s

\* str::trim(): the model's only whitespace character is the space
trim(s) == trim_end_matches(trim_start_matches(s, " "), " ")

\* index of the first occurrence of ch in s, 0 when there is none
FirstIndex(s, ch) ==
    IF \E k \in 1..Len(s) : s[k] = ch
    THEN CHOOSE k \in 1..Len(s) : s[k] = ch /\ \A m \in 1..(k - 1) : s[m] # ch
    ELSE 0

\* str::splitn(n, char): at most n pieces, the last one holds the rest
RECURSIVE splitn(_, _, _)
splitn(n, s, ch) ==
    LET k == FirstIndex(s, ch) IN
    IF n <= 1 \/ k = 0
    THEN <<s>>
    ELSE <<SubSeq(s, 1, k - 1)>> \o splitn(n - 1, SubSeq(s, k + 1, Len(s)), ch)

\* str::split(char): every piece, empty ones included
split(s, ch) == splitn(Len(s) + 1, s, ch)

\* [&str]::join(sep)
RECURSIVE join(_, _)
join(parts, ch) ==
    IF Len(parts) = 0 THEN <<>>
    ELSE IF Len(parts) = 1 THEN parts[1]
    ELSE parts[1] \o <<ch>> \o join(Tail(parts), ch)

RECURSIVE DecimalValue(_)
DecimalValue(s) ==
    IF Len(s) = 0 THEN 0
    ELSE LET v == 10 * DecimalValue(SubSeq(s, 1, Len(s) - 1)) + DigitValue(s[Len(s)])
         IN IF v > U16_MAX THEN U16_MAX + 1 ELSE v

\* str::parse::<u16>().is_ok(): an optional "+", then digits, value <= 65535
parse_u16_is_ok(s) ==
    LET d == IF Len(s) > 0 /\ s[1] = "+" THEN Tail(s) ELSE s IN
    /\ Len(d) > 0
    /\ \A k \in 1..Len(d) : IsDigit(d[k])
    /\ DecimalValue(d) <= U16_MAX

\* ------------------------------------------------------- pdns.rs helpers
ensure_fqdn(name) == IF ends_with(name, ".") THEN name ELSE Append(name, ".")

normalise_https_target(target) ==
    LET t == trim(target)
        parts == splitn(3, t, " ")
    IN IF Len(parts) >= 2 /\ parse_u16_is_ok(parts[1])
       THEN LET priority == parts[1]
                target_name == ensure_fqdn(parts[2])
                params == IF Len(parts) >= 3 THEN <<" ">> \o parts[3] ELSE <<>>
            IN priority \o <<" ">> \o target_name \o params
       ELSE <<"1", " ">> \o trim_end_matches(t, ".") \o <<".">>

\* mutant: TXT falls into the name-valued default arm
normalise_target_txt_as_name(record_type, target) ==
    CASE record_type \in {"A", "AAAA"} -> target
      [] record_type = "HTTPS" -> normalise_https_target(target)
      [] OTHER -> ensure_fqdn(target)

normalise_target(record_type, target) ==
    CASE record_type \in {"A", "AAAA"} -> target
      [] record_type = "TXT" -> target
      [] record_type = "HTTPS" -> normalise_https_target(target)
      [] OTHER -> ensure_fqdn(target)

Record(content, disabled) == [content |-> content, disabled |-> disabled]

RrSet(name, rrtype, ttl, records, changetype) ==
    [name |-> name, rrtype |-> rrtype, ttl |-> ttl, records |-> records,
     changetype |-> changetype]

\* mutant: a zero recordTTL is sent as it is
build_rrset_zero_ttl(ep, default_ttl, changetype) ==
    LET records == [k \in 1..Len(ep.targets) |->
                       Record(normalise_target(ep.record_type, ep.targets[k]), FALSE)]
    IN RrSet(ensure_fqdn(ep.dns_name), ep.record_type, ep.record_ttl, records, changetype)

build_rrset(ep, default_ttl, changetype) ==
    LET ttl == IF ep.record_ttl > 0 THEN ep.record_ttl ELSE default_ttl
        records == [k \in 1..Len(ep.targets) |->
                       Record(normalise_target(ep.record_type, ep.targets[k]), FALSE)]
    IN RrSet(ensure_fqdn(ep.dns_name), ep.record_type, ttl, records, changetype)

\* mutant: delete sends the endpoint's records as a REPLACE
delete_rrset_replace(ep) == build_rrset(ep, DEFAULT_TTL, "REPLACE")

\* the RRset PdnsClient::delete sends
delete_rrset(ep) == RrSet(ensure_fqdn(ep.dns_name), ep.record_type, 0, <<>>, "DELETE")

\* the RRset PdnsClient::upsert sends
upsert_rrset(ep, default_ttl) == build_rrset(ep, default_ttl, "REPLACE")

\* zone_for: the labels of the name and the candidate of walk index i (Rust's i)
zone_labels(fqdn) == split(trim_end_matches(fqdn, "."), ".")

zone_candidate(labels, i) == join(SubSeq(labels, i + 1, Len(labels)), ".") \o <<".">>

\* mutant: the range is inclusive, `1..=labels.len()`
zone_walk_has_inclusive(labels, i) == i <= Len(labels)

\* zone_for's loop `for i in 1..labels.len()` has an item at index i
zone_walk_has(labels, i) == i < Len(labels)

\* zone_for's loop starts at index 1: the full name is skipped
zone_walk_first == 1

\* ---------------------------------------------------------------- inputs
n_abc == <<"a", ".", "b", ".", "c">>
n_abc_dot == <<"a", ".", "b", ".", "c", ".">>
n_bc == <<"b", ".", "c">>
n_c == <<"c">>
n_ab_c == <<"a", "b", ".", "c">>

z_bc == <<"b", ".", "c", ".">>
z_c == <<"c", ".">>

\* every zone a backend of the model may hold
ZoneUniverse == {z_bc, z_c}

Endpoint(dns_name, record_type, targets, record_ttl) ==
    [dns_name |-> dns_name, record_type |-> record_type, targets |-> targets,
     record_ttl |-> record_ttl]

\* the endpoints a request body may carry: a deep name without and with the
\* trailing dot (the same RRset), a name equal to a zone apex, a single-label
\* name, and a name that has a zone name as string suffix but not as label suffix
Endpoints ==
    { Endpoint(n_abc, "A", << <<"1">> >>, 0),
      Endpoint(n_abc_dot, "A", << <<"2">>, <<"3">> >>, 60),
      Endpoint(n_bc, "CNAME", << <<"a", ".", "c">> >>, 0),
      Endpoint(n_c, "A", << <<"4">> >>, 0),
      Endpoint(n_ab_c, "TXT", << <<"t">> >>, 0) }

Changes(delete, update_old, update_new, create) ==
    [delete |-> delete, update_old |-> update_old, update_new |-> update_new,
     create |-> create]

EmptyChanges == Changes(<<>>, <<>>, <<>>, <<>>)

SeqsUpTo(S, n) == UNION {[1..k -> S] : k \in 0..n}

\* every request body with at most MaxEntries endpoints over the four lists
ChangeSets ==
    UNION { { Changes(SubSeq(s, 1, c[1]), SubSeq(s, c[1] + 1, c[2]),
                      SubSeq(s, c[2] + 1, c[3]), SubSeq(s, c[3] + 1, Len(s))) :
                c \in {d \in [1..3 -> 0..Len(s)] : d[1] <= d[2] /\ d[2] <= d[3]} } :
            s \in SeqsUpTo(Endpoints, MaxEntries) }

\* ------------------------------------------------- the PowerDNS backend
\* One stored RRset of a zone.
Stored(zone, name, rrtype, ttl, records) ==
    [zone |-> zone, name |-> name, rrtype |-> rrtype, ttl |-> ttl, records |-> records]

\* the RRsets a backend with these zones holds before the first request
SeedStore(zs) ==
    (IF z_bc \in zs
     THEN {Stored(z_bc, n_abc_dot, "A", 60, << Record(<<"9">>, FALSE) >>)} ELSE {})
    \cup
    (IF z_c \in zs
     THEN {Stored(z_c, <<"a", "b", ".", "c", ".">>, "TXT", 60, << Record(<<"s">>, FALSE) >>)}
     ELSE {})

\* PATCH /zones/{zone} of one RRset: REPLACE and DELETE both drop the stored
\* RRset of that name and type; REPLACE with records stores the new one
RECURSIVE backend_patch(_, _, _)
backend_patch(store, zone, rrsets) ==
    IF Len(rrsets) = 0 THEN store
    ELSE LET r == rrsets[1]
             rest == {x \in store : ~(x.zone = zone /\ x.name = r.name /\ x.rrtype = r.rrtype)}
             now == IF r.changetype = "REPLACE" /\ Len(r.records) > 0
                    THEN rest \cup {Stored(zone, r.name, r.rrtype, r.ttl, r.records)}
                    ELSE rest
         IN backend_patch(now, zone, Tail(rrsets))

Response(status, body) == [status |-> status, body |-> body]

\* no response at all: the request failed in transport (reqwest send() error)
NoResponse == Response(0, "")

is_success(status) == status >= 200 /\ status <= 299

\* what GET /zones/{candidate} may answer: 200 only for a zone that exists;
\* a zone that exists may also answer a server error; a missing zone answers 404
lookup_responses(zs, candidate) ==
    (IF candidate \in zs
     THEN {Response(200, "zone"), Response(500, "Internal Server Error")}
     ELSE {Response(404, "Not Found")})
    \cup {NoResponse}

\* what PATCH /zones/{zone} may answer
patch_responses == {Response(204, ""), Response(422, "Unprocessable Entity"), NoResponse}

\* ------------------------------------------------------------- the state
VARIABLES
    zones,        \* backend: the names of the zones that exist
    rr,           \* backend: the stored RRsets of all zones
    changes,      \* apply_changes: the request body being applied
    pc,           \* apply_changes: "idle", "zone_for", "patch_zone" or "done"
    phase,        \* apply_changes: which of the four loops runs (1..4; 5 = past the last)
    idx,          \* apply_changes: the position in that loop's list
    i,            \* zone_for: the walk index
    zone,         \* upsert / delete: the zone zone_for returned
    resp,         \* the answer of the request
    calls,        \* history: the backend calls of this request, in order
    rrStart,      \* history: the stored RRsets when this request began
    rr0,          \* history: the stored RRsets before the first request
    prev,         \* history: the answer of the first submission, once re-submitted
    peer,         \* a second request in flight: the locals of its suspended handler
    task,         \* which of the two requests the running handler serves (1 or 2)
    owners,       \* history: the request each backend call was made for
    domain_filter, \* cfg.domain_filter_list(): the configured name suffixes
    listed,       \* list_endpoints: the zone stubs GET /zones returned
    endpoints,    \* list_endpoints: the endpoints collected so far
    arg,          \* the argument of a conversion function under test
    out           \* the value the conversion returned

pair_vars == <<peer, task, owners>>

read_vars == <<domain_filter, listed, endpoints>>

conv_vars == <<arg, out>>

vars == <<zones, rr, changes, pc, phase, idx, i, zone, resp, calls, rrStart, rr0, prev,
          pair_vars, read_vars, conv_vars>>

\* an anyhow error, by the parts its message is built from
Error(kind, status, body, subject) ==
    [kind |-> kind, status |-> status, body |-> body, subject |-> subject]

NoError == Error("none", 0, "", <<>>)

\* zone_for: Err(anyhow!("no PowerDNS zone found for {fqdn}"))
no_zone_error(fqdn) == Error("no_zone", 0, "", fqdn)

\* zone_for: `.send().await?` hands the reqwest error on
lookup_transport_error(candidate) == Error("transport", 0, "", candidate)

\* patch_zone: `.context("PATCH /zones/:id")?` on a reqwest error, and
\* bail!("PowerDNS PATCH error {status}: {body}") on a non-2xx answer
patch_error(zn, response) ==
    IF response = NoResponse
    THEN Error("patch_transport", 0, "", zn)
    ELSE Error("patch_status", response.status, response.body, <<>>)

HttpResponse(status, error) == [status |-> status, error |-> error]

NoAnswer == HttpResponse(0, NoError)

\* mutant: the status falls back to 500 Internal Server Error
error_response_internal(code, msg) == HttpResponse(500, msg)

\* error_response(code, msg): the status and the {"error": msg} body
error_response(code, msg) == HttpResponse(code, msg)

Loop(list, eps, op) == [list |-> list, eps |-> eps, op |-> op]

\* mutant: the create loop runs first
loop_lists_create_first(ch) ==
    << Loop("create", ch.create, "upsert"),
       Loop("delete", ch.delete, "delete"),
       Loop("update_old", ch.update_old, "delete"),
       Loop("update_new", ch.update_new, "upsert") >>

\* mutant: the updateOld loop calls upsert
loop_lists_update_old_upsert(ch) ==
    << Loop("delete", ch.delete, "delete"),
       Loop("update_old", ch.update_old, "upsert"),
       Loop("update_new", ch.update_new, "upsert"),
       Loop("create", ch.create, "upsert") >>

\* the four loops of apply_changes, in the order the code runs them, each with
\* the list it walks and the client operation it calls
loop_lists(ch) ==
    << Loop("delete", ch.delete, "delete"),
       Loop("update_old", ch.update_old, "delete"),
       Loop("update_new", ch.update_new, "upsert"),
       Loop("create", ch.create, "upsert") >>

\* the loop position the handler is at when it arrives at (p, j): lists that
\* are exhausted are left; <<5, 1>> is the end of the last loop
RECURSIVE loop_position(_, _, _)
loop_position(ch, p, j) ==
    IF p > 4 THEN <<5, 1>>
    ELSE IF j <= Len(loop_lists(ch)[p].eps) THEN <<p, j>>
    ELSE loop_position(ch, p + 1, 1)

entry_at(ch, p, j) == loop_lists(ch)[p].eps[j]

\* the entry a backend call is made for: its list and its place in that list
entry_id(ch, p, j) == <<loop_lists(ch)[p].list, j>>

\* the RRset the loop's client operation sends for the entry at (p, j)
entry_rrset(ch, p, j, default_ttl) ==
    IF loop_lists(ch)[p].op = "delete" THEN delete_rrset(entry_at(ch, p, j))
    ELSE upsert_rrset(entry_at(ch, p, j), default_ttl)

\* mutant: the RRset is put into the body twice
patch_request_twice(zn, rrset) == [zone |-> zn, rrsets |-> <<rrset, rrset>>]

\* patch_zone(&zone, vec![rrset]): the request upsert and delete send
patch_request(zn, rrset) == [zone |-> zn, rrsets |-> <<rrset>>]

\* mutant: the loop logs the Err and goes on to the next entry (no return)
handler_after_continue(ch, p, j, err) ==
    LET n == loop_position(ch, p, j + 1) IN
    IF n[1] > 4
    THEN [pc |-> "done", pos |-> n, resp |-> [status |-> NO_CONTENT, error |-> err]]
    ELSE [pc |-> "zone_for", pos |-> n, resp |-> [status |-> 0, error |-> err]]

\* apply_changes: what a loop does with the Result of delete / upsert for the
\* entry at (p, j): an Err returns 502 at once, an Ok goes on to the next entry,
\* and the end of the last loop returns 204
handler_after(ch, p, j, err) ==
    IF err # NoError
    THEN [pc |-> "done", pos |-> <<p, j>>, resp |-> error_response(BAD_GATEWAY, err)]
    ELSE LET n == loop_position(ch, p, j + 1) IN
         IF n[1] > 4
         THEN [pc |-> "done", pos |-> n, resp |-> HttpResponse(NO_CONTENT, NoError)]
         ELSE [pc |-> "zone_for", pos |-> n, resp |-> NoAnswer]

Call(op, zn, entry, rrsets, response, result, error) ==
    [op |-> op, zone |-> zn, entry |-> entry, rrsets |-> rrsets, status |-> response.status,
     body |-> response.body, result |-> result, error |-> error]

\* the locals of a handler that has not received its request yet
NoTask ==
    [changes |-> EmptyChanges, pc |-> "idle", phase |-> 1, idx |-> 1,
     i |-> zone_walk_first, zone |-> <<>>, resp |-> NoAnswer]

\* the backend before the first request
InitBackend ==
    /\ \/ zones = ZoneUniverse
       \/ zones \in (SUBSET ZoneUniverse) \ {ZoneUniverse}
    /\ rr = SeedStore(zones)
    /\ rrStart = rr
    /\ rr0 = rr

\* no request has arrived
InitHandlers ==
    /\ changes = EmptyChanges
    /\ pc = "idle"
    /\ phase = 1
    /\ idx = 1
    /\ i = zone_walk_first
    /\ zone = <<>>
    /\ resp = NoAnswer
    /\ calls = <<>>
    /\ prev = NoAnswer
    /\ peer = NoTask
    /\ task = 1
    /\ owners = <<>>
    /\ listed = <<>>
    /\ endpoints = <<>>

\* no conversion is under test
InitNoConversion ==
    /\ arg = <<>>
    /\ out = <<>>

Init ==
    /\ InitBackend
    /\ InitHandlers
    /\ domain_filter = <<>>
    /\ InitNoConversion

\* the handler moves on as handler_after says
Continue(nxt) ==
    /\ pc' = nxt.pc
    /\ phase' = nxt.pos[1]
    /\ idx' = nxt.pos[2]
    /\ i' = zone_walk_first
    /\ resp' = nxt.resp

\* POST /records arrives with body ch: the handler runs up to its first await
apply_changes(ch) ==
    /\ pc = "idle"
    /\ changes' = ch
    /\ Continue(handler_after(ch, 1, 0, NoError))
    /\ UNCHANGED <<zones, rr, zone, calls, rrStart, rr0, prev>>
    /\ UNCHANGED <<pair_vars, read_vars, conv_vars>>

\* zone_for: one GET /zones/{candidate} and what the loop does with the answer
zone_for_lookup ==
    /\ pc = "zone_for"
    /\ LET ep == entry_at(changes, phase, idx)
           labels == zone_labels(ep.dns_name)
           candidate == zone_candidate(labels, i)
       IN /\ zone_walk_has(labels, i)
          /\ \E response \in lookup_responses(zones, candidate) :
                \/ /\ response = NoResponse
                   /\ calls' = Append(calls, Call("GET", candidate, entry_id(changes, phase, idx), <<>>,
                                  response, "err", lookup_transport_error(candidate)))
                   /\ Continue(handler_after(changes, phase, idx,
                                             lookup_transport_error(candidate)))
                   /\ UNCHANGED zone
                \/ /\ response # NoResponse
                   /\ is_success(response.status)
                   /\ calls' = Append(calls, Call("GET", candidate, entry_id(changes, phase, idx), <<>>,
                                  response, "ok", NoError))
                   /\ zone' = candidate
                   /\ pc' = "patch_zone"
                   /\ UNCHANGED <<phase, idx, i, resp>>
                \/ /\ response # NoResponse
                   /\ ~is_success(response.status)
                   /\ calls' = Append(calls, Call("GET", candidate, entry_id(changes, phase, idx), <<>>,
                                  response, "miss", NoError))
                   /\ i' = i + 1
                   /\ UNCHANGED <<pc, phase, idx, zone, resp>>
    /\ UNCHANGED <<zones, rr, changes, rrStart, rr0, prev>>
    /\ UNCHANGED <<pair_vars, read_vars, conv_vars>>

\* zone_for: the loop is over and no candidate answered 2xx
zone_for_not_found ==
    /\ pc = "zone_for"
    /\ LET ep == entry_at(changes, phase, idx)
       IN /\ ~zone_walk_has(zone_labels(ep.dns_name), i)
          /\ Continue(handler_after(changes, phase, idx, no_zone_error(ep.dns_name)))
    /\ UNCHANGED <<zones, rr, changes, zone, calls, rrStart, rr0, prev>>
    /\ UNCHANGED <<pair_vars, read_vars, conv_vars>>

\* upsert / delete: the PATCH of the entry's RRset to the resolved zone
patch_zone ==
    /\ pc = "patch_zone"
    /\ LET req == patch_request(zone, entry_rrset(changes, phase, idx, DEFAULT_TTL))
       IN \E response \in patch_responses :
            IF response # NoResponse /\ is_success(response.status)
            THEN /\ rr' = backend_patch(rr, req.zone, req.rrsets)
                 /\ calls' = Append(calls, Call("PATCH", req.zone, entry_id(changes, phase, idx),
                                req.rrsets, response, "ok", NoError))
                 /\ Continue(handler_after(changes, phase, idx, NoError))
            ELSE /\ rr' = rr
                 /\ calls' = Append(calls, Call("PATCH", req.zone, entry_id(changes, phase, idx),
                                req.rrsets, response, "err", patch_error(req.zone, response)))
                 /\ Continue(handler_after(changes, phase, idx,
                                           patch_error(req.zone, response)))
    /\ UNCHANGED <<zones, changes, zone, rrStart, rr0, prev>>
    /\ UNCHANGED <<pair_vars, read_vars, conv_vars>>

\* the caller submits the same body once more after the first answer
resubmit ==
    /\ pc = "done"
    /\ prev = NoAnswer
    /\ prev' = resp
    /\ rrStart' = rr
    /\ calls' = <<>>
    /\ Continue(handler_after(changes, 1, 0, NoError))
    /\ UNCHANGED <<zones, rr, changes, zone, rr0>>
    /\ UNCHANGED <<pair_vars, read_vars, conv_vars>>

\* one POST /records request
Next ==
    \/ \E ch \in ChangeSets : apply_changes(ch)
    \/ zone_for_lookup
    \/ zone_for_not_found
    \/ patch_zone

Spec == Init /\ [][Next]_vars

\* one POST /records request and one re-submission of the same body
NextRetry ==
    \/ \E ch \in ChangeSets : apply_changes(ch)
    \/ zone_for_lookup
    \/ zone_for_not_found
    \/ patch_zone
    \/ resubmit

SpecRetry == Init /\ [][NextRetry]_vars

\* ------------------------------------------- two requests handled at once
\* What a handler future owns: the request body, the loop it is in and its
\* position, and the locals of the zone_for / upsert / delete call it awaits.
\* AppState (cfg, pdns) is cloned per request and never written.
task_local ==
    [changes |-> changes, pc |-> pc, phase |-> phase, idx |-> idx, i |-> i,
     zone |-> zone, resp |-> resp]

\* mutant: the resolved zone is a field shared by all requests
resume_zone_shared(saved, shared) == shared

\* `let zone = self.zone_for(..).await?` is a local of upsert / delete: a
\* resumed handler finds the zone it resolved itself
resume_zone(saved, shared) == saved

\* the bodies of the two requests: both write the RRsets "a.b.c." A and
\* "ab.c." TXT, one with two creates, the other with a delete and a create
PairBodies ==
    { Changes(<<>>, <<>>, <<>>,
              << Endpoint(n_abc, "A", << <<"1">> >>, 0),
                 Endpoint(n_ab_c, "TXT", << <<"t">> >>, 0) >>),
      Changes(<< Endpoint(n_ab_c, "TXT", << <<"t">> >>, 0) >>, <<>>, <<>>,
              << Endpoint(n_abc_dot, "A", << <<"2">>, <<"3">> >>, 60) >>) }

\* the runtime suspends the running handler at its await and resumes the other
\* request's handler (which may not have received its request yet)
switch_task ==
    /\ peer.pc # "done"
    /\ peer' = task_local
    /\ changes' = peer.changes
    /\ pc' = peer.pc
    /\ phase' = peer.phase
    /\ idx' = peer.idx
    /\ i' = peer.i
    /\ zone' = resume_zone(peer.zone, zone)
    /\ resp' = peer.resp
    /\ task' = 3 - task
    /\ owners' = owners \o [k \in 1..(Len(calls) - Len(owners)) |-> task]
    /\ UNCHANGED <<zones, rr, calls, rrStart, rr0, prev, read_vars, conv_vars>>

\* two POST /records requests in flight at once
NextPair ==
    \/ \E ch \in PairBodies : apply_changes(ch)
    \/ zone_for_lookup
    \/ zone_for_not_found
    \/ patch_zone
    \/ switch_task

SpecPair == Init /\ [][NextPair]_vars

\* ------------------------------------------------------- the read path
\* mutant: the suffix must start at a label boundary
ends_with_label(s, suffix) ==
    /\ Len(suffix) <= Len(s)
    /\ SubSeq(s, Len(s) - Len(suffix) + 1, Len(s)) = suffix
    /\ Len(suffix) = Len(s) \/ s[Len(s) - Len(suffix)] = "."

\* str::ends_with(&str)
ends_with_str(s, suffix) ==
    Len(suffix) <= Len(s) /\ SubSeq(s, Len(s) - Len(suffix) + 1, Len(s)) = suffix

MANAGED_TYPES == {"A", "AAAA", "CNAME", "TXT", "HTTPS"}

\* records.iter().filter(|r| !r.disabled).map(|r| r.content.clone()).collect()
RECURSIVE enabled_contents(_)
enabled_contents(records) ==
    IF Len(records) = 0 THEN <<>>
    ELSE (IF records[1].disabled THEN <<>> ELSE <<records[1].content>>)
         \o enabled_contents(Tail(records))

\* mutant: disabled records are listed as targets too
rrset_endpoints_with_disabled(rrset, filter) ==
    IF rrset.rrtype \notin MANAGED_TYPES THEN <<>>
    ELSE LET name == trim_end_matches(rrset.name, ".")
             targets == [k \in 1..Len(rrset.records) |-> rrset.records[k].content]
         IN IF Len(filter) > 0 /\ ~(\E d \in 1..Len(filter) : ends_with_str(name, filter[d]))
            THEN <<>>
            ELSE IF Len(targets) = 0 THEN <<>>
            ELSE << Endpoint(name, rrset.rrtype, targets, rrset.ttl) >>

\* mutant: the name keeps its trailing dot
rrset_endpoints_dotted(rrset, filter) ==
    IF rrset.rrtype \notin MANAGED_TYPES THEN <<>>
    ELSE LET targets == enabled_contents(rrset.records)
         IN IF Len(filter) > 0
               /\ ~(\E d \in 1..Len(filter) : ends_with_str(rrset.name, filter[d]))
            THEN <<>>
            ELSE IF Len(targets) = 0 THEN <<>>
            ELSE << Endpoint(rrset.name, rrset.rrtype, targets, rrset.ttl) >>

\* the body of list_endpoints' loop over zone.rrsets: the endpoints (none or
\* one) pushed for one RRset
rrset_endpoints(rrset, filter) ==
    IF rrset.rrtype \notin MANAGED_TYPES THEN <<>>
    ELSE LET name == trim_end_matches(rrset.name, ".")
             targets == enabled_contents(rrset.records)
         IN IF Len(filter) > 0 /\ ~(\E d \in 1..Len(filter) : ends_with_str(name, filter[d]))
            THEN <<>>
            ELSE IF Len(targets) = 0 THEN <<>>
            ELSE << Endpoint(name, rrset.rrtype, targets, rrset.ttl) >>

\* .map(str::trim).filter(|s| !s.is_empty()) over the pieces of the setting
RECURSIVE trimmed_nonempty(_)
trimmed_nonempty(parts) ==
    IF Len(parts) = 0 THEN <<>>
    ELSE (IF Len(trim(parts[1])) = 0 THEN <<>> ELSE <<trim(parts[1])>>)
         \o trimmed_nonempty(Tail(parts))

\* Config::domain_filter_list: the comma-separated DOMAIN_FILTER setting as a list
domain_filter_list(raw) == trimmed_nonempty(split(raw, ","))

\* the DOMAIN_FILTER settings tried: unset, one suffix, and two suffixes with
\* spaces and an empty piece
RawFilters == { <<>>, <<"b", ".", "c">>, <<" ", "x", ",", " ", "c", ",">> }

\* the domain filters the read path is configured with
Filters == {domain_filter_list(raw) : raw \in RawFilters}

\* the endpoints of one fetched zone: `for rrset in zone.rrsets { .. push .. }`
RECURSIVE zone_endpoints(_, _)
zone_endpoints(rrsets, filter) ==
    IF Len(rrsets) = 0 THEN <<>>
    ELSE rrset_endpoints(rrsets[1], filter) \o zone_endpoints(Tail(rrsets), filter)

\* the RRsets the zones may hold when the catalog is read: an A RRset with an
\* enabled and a disabled record, unmanaged types, an RRset with every record
\* disabled, and names inside and outside the configured filters
ReadUniverse ==
    { Stored(z_bc, n_abc_dot, "A", 60, << Record(<<"1">>, FALSE), Record(<<"2">>, TRUE) >>),
      Stored(z_bc, z_bc, "SOA", 3600, << Record(<<"n", "s">>, FALSE) >>),
      Stored(z_bc, <<"x", ".", "b", ".", "c", ".">>, "TXT", 60, << Record(<<"t">>, TRUE) >>),
      Stored(z_bc, <<"m", ".", "b", ".", "c", ".">>, "MX", 60, << Record(<<"1", " ", "h", ".">>, FALSE) >>),
      Stored(z_c, <<"a", "b", ".", "c", ".">>, "TXT", 0,
             << Record(<<"s">>, TRUE), Record(<<"t">>, FALSE), Record(<<"u">>, FALSE) >>),
      Stored(z_c, <<"d", ".", "c", ".">>, "HTTPS", 60, << Record(<<"1", " ", ".">>, FALSE) >>),
      Stored(z_c, z_c, "NS", 60, << Record(<<"n", "s">>, FALSE) >>),
      Stored(z_c, <<"e", ".", "c", "x", ".">>, "CNAME", 60, << Record(<<"h", ".">>, FALSE) >>) }

ReadStores(zs) ==
    {st \in SUBSET ReadUniverse :
        \A z \in ZoneUniverse :
            /\ z \notin zs => {x \in st : x.zone = z} = {}
            /\ Cardinality({x \in st : x.zone = z}) <= MaxRrsets}

\* every order a JSON array of the elements of S can come in
Orderings(S) ==
    {q \in [1..Cardinality(S) -> S] : \A a, b \in 1..Cardinality(S) : q[a] = q[b] => a = b}

\* a response body that decodes to the value: `resp.json().await` is Ok(value)
Json(value) == [json |-> TRUE, value |-> value]

\* a body that does not decode: `resp.json().await?` fails
Undecodable == [json |-> FALSE, value |-> <<>>]

\* what GET /zones may answer: the zone stubs in some order, a body that does
\* not decode, a server error, or nothing
zones_responses(zs) ==
    {Response(200, Json(q)) : q \in Orderings(zs)}
    \cup {Response(200, Undecodable), Response(503, "Service Unavailable"), NoResponse}

\* what GET /zones/{id} may answer: the zone's RRsets in some order, a body that
\* does not decode, a server error, or nothing
zone_responses(store, id) ==
    {Response(200, Json(q)) : q \in Orderings({x \in store : x.zone = id})}
    \cup {Response(200, Undecodable), Response(500, "Internal Server Error"), NoResponse}

\* list_zones: .context("GET /zones")? on a reqwest error,
\* bail!("PowerDNS GET /zones {status}: {body}") on a non-2xx answer, and the
\* serde error of `resp.json().await?`
list_zones_error(response) ==
    IF response.status = NoResponse.status THEN Error("list_transport", 0, "", <<>>)
    ELSE IF ~is_success(response.status)
         THEN Error("list_status", response.status, response.body, <<>>)
    ELSE IF ~response.body.json THEN Error("list_decode", 0, "", <<>>)
    ELSE NoError

\* get_zone: .context("GET /zones/:id")?, bail!("PowerDNS GET zone {id} -> {status}")
\* and the serde error of `resp.json().await?`
get_zone_error(id, response) ==
    IF response.status = NoResponse.status THEN Error("zone_transport", 0, "", id)
    ELSE IF ~is_success(response.status) THEN Error("zone_status", response.status, "", id)
    ELSE IF ~response.body.json THEN Error("zone_decode", 0, "", id)
    ELSE NoError

\* get_records, Ok(eps): 200 with the endpoint array
records_response(eps) == [status |-> OK, error |-> NoError, body |-> eps]

\* mutant: the error is logged and an empty array is answered
records_error_response_empty(err) == records_response(<<>>)

\* get_records, Err(e): 500 with the {"error": e} body
records_error_response(err) == HttpResponse(INTERNAL_SERVER_ERROR, err)

\* mutant: the first zone that cannot be fetched ends the scan with an error (`?`)
list_after_abort(zs, k, eps, err) ==
    IF err # NoError
    THEN [pc |-> "done", idx |-> k, resp |-> records_error_response(err)]
    ELSE IF k > Len(zs)
    THEN [pc |-> "done", idx |-> k, resp |-> records_response(eps)]
    ELSE [pc |-> "get_zone", idx |-> k, resp |-> NoAnswer]

\* list_endpoints' loop over the zone stubs arriving at stub k with the
\* endpoints collected so far, err being the failure of the stub before it
\* (logged, then `continue`): past the last stub, Ok(endpoints) is answered 200
list_after(zs, k, eps, err) ==
    IF k > Len(zs)
    THEN [pc |-> "done", idx |-> k, resp |-> records_response(eps)]
    ELSE [pc |-> "get_zone", idx |-> k, resp |-> NoAnswer]

write_vars == <<zones, rr, changes, phase, i, zone, rrStart, rr0, prev, pair_vars, conv_vars>>

\* GET /records arrives: the handler reads the domain filter and calls list_endpoints
get_records ==
    /\ pc = "idle"
    /\ pc' = "list_zones"
    /\ UNCHANGED <<write_vars, idx, resp, calls, read_vars>>

\* list_endpoints: `let zones = self.list_zones().await?`
list_zones ==
    /\ pc = "list_zones"
    /\ \E response \in zones_responses(zones) :
          LET err == list_zones_error(response) IN
          /\ calls' = Append(calls, Call("GET", <<"z", "o", "n", "e", "s">>, <<"zones", 0>>, <<>>,
                                         response, IF err = NoError THEN "ok" ELSE "err", err))
          /\ IF err # NoError
             THEN /\ pc' = "done"
                  /\ resp' = records_error_response(err)
                  /\ UNCHANGED <<listed, idx>>
             ELSE /\ listed' = response.body.value
                  /\ pc' = list_after(response.body.value, 1, endpoints, NoError).pc
                  /\ idx' = 1
                  /\ resp' = list_after(response.body.value, 1, endpoints, NoError).resp
    /\ UNCHANGED <<write_vars, domain_filter, endpoints>>

\* list_endpoints: one turn of `for zone_stub in zones`: get_zone, then the
\* loop over the zone's RRsets
get_zone ==
    /\ pc = "get_zone"
    /\ \E response \in zone_responses(rr, listed[idx]) :
          LET err == get_zone_error(listed[idx], response)
              eps == IF err = NoError
                     THEN endpoints \o zone_endpoints(response.body.value, domain_filter)
                     ELSE endpoints
              nxt == list_after(listed, idx + 1, eps, err)
          IN /\ calls' = Append(calls, Call("GET", listed[idx], <<"zone", idx>>, <<>>,
                                            response, IF err = NoError THEN "ok" ELSE "err", err))
             /\ endpoints' = eps
             /\ pc' = nxt.pc
             /\ idx' = nxt.idx
             /\ resp' = nxt.resp
    /\ UNCHANGED <<write_vars, domain_filter, listed>>

InitRead ==
    /\ zones \in SUBSET ZoneUniverse
    /\ rr \in ReadStores(zones)
    /\ rrStart = rr
    /\ rr0 = rr
    /\ InitHandlers
    /\ domain_filter \in Filters
    /\ InitNoConversion

\* one GET /records request
NextRead ==
    \/ get_records
    \/ list_zones
    \/ get_zone

SpecRead == InitRead /\ [][NextRead]_vars

\* ------------------------------------------------ conversions on their own
\* the space-separated fields target strings are built of: empty (two spaces in
\* a row, or a space at an end), numbers that are and are not a u16, host names
\* with no, one and two trailing dots, the root, and a parameter
Fields ==
    { <<>>, <<"1">>, <<"+", "7">>, <<"7", "7", "7", "7", "7">>, <<"h">>, <<"h", ".">>,
      <<".">>, <<"h", ".", ".">>, <<"k", "=", "v">> }

TargetStrings == {join(f, " ") : f \in SeqsUpTo(Fields, MaxFields)}

\* managed and unmanaged record types, "SPF" standing for an unrecognized one
RecordTypes == {"A", "AAAA", "TXT", "HTTPS", "CNAME", "MX", "NS", "PTR", "SRV", "ALIAS", "SPF"}

NormaliseArgs ==
    {[fn |-> "normalise_target", record_type |-> t, target |-> s] :
        t \in RecordTypes, s \in TargetStrings}

\* the targets of the endpoints handed to build_rrset
EndpointTargets ==
    { <<"h">>, <<"h", ".">>, <<"1", " ", "h">>, <<"h", " ", "k", "=", "v">>, <<" ", "9">> }

\* the names of the endpoints handed to build_rrset
EndpointNames == {n_abc, n_abc_dot, n_bc, <<>>}

BuildArgs ==
    {[fn |-> "build_rrset", ep |-> Endpoint(n, t, ts, ttl), default_ttl |-> d, changetype |-> c] :
        n \in EndpointNames, t \in {"A", "TXT", "HTTPS", "CNAME", "MX"},
        ts \in SeqsUpTo(EndpointTargets, MaxTargets), ttl \in {0, 60},
        d \in {DEFAULT_TTL}, c \in {"REPLACE", "DELETE"}}

InitConv ==
    /\ zones = {}
    /\ rr = {}
    /\ rrStart = rr
    /\ rr0 = rr
    /\ InitHandlers
    /\ \/ arg \in NormaliseArgs /\ domain_filter = <<>>
       \/ arg \in BuildArgs /\ domain_filter \in Filters
    /\ out = <<>>

idle_vars == <<zones, rr, changes, pc, phase, idx, i, zone, resp, calls, rrStart, rr0, prev,
               pair_vars, read_vars>>

\* normalise_target applied to the argument, then once more to its own result
normalise_target_call ==
    /\ arg.fn = "normalise_target"
    /\ Len(out) < 2
    /\ out' = Append(out, normalise_target(arg.record_type,
                                           IF Len(out) = 0 THEN arg.target ELSE out[Len(out)]))
    /\ UNCHANGED <<idle_vars, arg>>

\* build_rrset applied to the argument
build_rrset_call ==
    /\ arg.fn = "build_rrset"
    /\ Len(out) = 0
    /\ out' = <<build_rrset(arg.ep, arg.default_ttl, arg.changetype)>>
    /\ UNCHANGED <<idle_vars, arg>>

\* the RRset build_rrset made for a REPLACE, read back as list_endpoints reads
\* an RRset of a zone
read_back ==
    /\ arg.fn = "build_rrset"
    /\ arg.changetype = "REPLACE"
    /\ Len(out) = 1
    /\ out' = Append(out, rrset_endpoints(out[1], domain_filter))
    /\ UNCHANGED <<idle_vars, arg>>

NextConv ==
    \/ normalise_target_call
    \/ build_rrset_call
    \/ read_back

SpecConv == InitConv /\ [][NextConv]_vars

\* ------------------------------------------------- POST /adjustendpoints
\* handlers.rs HTTPS_TARGET_ANNOTATION
HTTPS_TARGET_ANNOTATION == "webhook/pdns-https-target"

ProviderSpecific(name, value) == [name |-> name, value |-> value]

\* dns::Endpoint with its providerSpecific list
EndpointWith(dns_name, record_type, targets, record_ttl, provider_specific) ==
    [dns_name |-> dns_name, record_type |-> record_type, targets |-> targets,
     record_ttl |-> record_ttl, provider_specific |-> provider_specific]

\* find_provider_specific: the value of the first directive of that name, as
\* an Option (<<>> is None, <<v>> is Some(v))
RECURSIVE find_provider_specific(_, _)
find_provider_specific(provider_specific, key) ==
    IF Len(provider_specific) = 0 THEN <<>>
    ELSE IF provider_specific[1].name = key THEN <<provider_specific[1].value>>
    ELSE find_provider_specific(Tail(provider_specific), key)

\* validate_https_target(value, dns_name); dns_name is only logged
validate_https_target(value) ==
    LET trimmed == trim(value)
        parts == splitn(3, trimmed, " ")
    IN IF Len(parts) >= 2 /\ parse_u16_is_ok(parts[1]) THEN trimmed
       ELSE IF Len(parts) >= 1 /\ ~parse_u16_is_ok(parts[1]) THEN <<"1", " ">> \o trimmed
       ELSE <<"1", " ", ".", " ">> \o trimmed

\* t.split_whitespace().next().unwrap_or(""): the first token of a trimmed string
first_token(t) ==
    LET k == FirstIndex(t, " ") IN IF k = 0 THEN t ELSE SubSeq(t, 1, k - 1)

\* mutant: the priority check is skipped and "1 " always put in front
prefix_https_priority_always(target) == <<"1", " ">> \o trim(target)

\* handlers.rs normalise_https_target(target, dns_name): the SvcPriority prefix
\* check of adjust_endpoints (not pdns.rs' function of the same name);
\* dns_name is only logged
prefix_https_priority(target) ==
    LET t == trim(target)
    IN IF parse_u16_is_ok(first_token(t)) THEN t ELSE <<"1", " ">> \o t

\* mutant: the adjusted endpoint loses its providerSpecific list
adjust_endpoint_drops_directives(ep) ==
    IF ep.record_type # "HTTPS" THEN ep
    ELSE LET annotation_value == find_provider_specific(ep.provider_specific,
                                                        HTTPS_TARGET_ANNOTATION)
         IN IF Len(annotation_value) > 0
            THEN [ep EXCEPT !.targets = <<validate_https_target(annotation_value[1])>>,
                            !.provider_specific = <<>>]
            ELSE IF Len(ep.targets) = 0 THEN ep
            ELSE [ep EXCEPT !.targets = [k \in 1..Len(ep.targets) |->
                                            prefix_https_priority(ep.targets[k])]]

\* adjust_endpoints: one turn of `for ep in &mut endpoints`
adjust_endpoint(ep) ==
    IF ep.record_type # "HTTPS" THEN ep
    ELSE LET annotation_value == find_provider_specific(ep.provider_specific,
                                                        HTTPS_TARGET_ANNOTATION)
         IN IF Len(annotation_value) > 0
            THEN [ep EXCEPT !.targets = <<validate_https_target(annotation_value[1])>>]
            ELSE IF Len(ep.targets) = 0 THEN ep
            ELSE [ep EXCEPT !.targets = [k \in 1..Len(ep.targets) |->
                                            prefix_https_priority(ep.targets[k])]]

\* adjust_endpoints: the body of the answer
adjust_endpoints(eps) == [k \in 1..Len(eps) |-> adjust_endpoint(eps[k])]

\* the target lists of the endpoints posted: none, a bare host, a target with
\* priority and surrounding spaces, a blank target, and two targets
AdjustTargets ==
    { <<>>,
      << <<"h">> >>,
      << <<" ", "1", " ", "h", " ">> >>,
      << <<>> >>,
      << <<"h", " ", "k", "=", "v">>, <<"0", " ", ".">> >> }

\* the providerSpecific lists: none, the annotation under the name the handler
\* looks for (complete, without priority, a bare number), the annotation under
\* the name external-dns is documented to send, and one behind another directive
AdjustDirectives ==
    { <<>>,
      << ProviderSpecific(HTTPS_TARGET_ANNOTATION, <<"1", " ", "s">>) >>,
      << ProviderSpecific(HTTPS_TARGET_ANNOTATION, <<".", " ", "k", "=", "v">>) >>,
      << ProviderSpecific(HTTPS_TARGET_ANNOTATION, <<"5">>) >>,
      << ProviderSpecific("pdns-https-target", <<"1", " ", ".", " ", "k", "=", "v">>) >>,
      << ProviderSpecific("aws/weight", <<"1", "0">>),
         ProviderSpecific(HTTPS_TARGET_ANNOTATION, <<" ", "h", " ">>) >> }

AdjustInputs ==
    {EndpointWith(n_abc, "HTTPS", ts, 0, ps) : ts \in AdjustTargets, ps \in AdjustDirectives}
    \cup { EndpointWith(n_bc, "A", << <<"h">> >>, 60, <<>>),
           EndpointWith(n_bc, "CNAME", << <<" ", "h">> >>, 0,
                        << ProviderSpecific(HTTPS_TARGET_ANNOTATION, <<"1", " ", "s">>) >>) }

InitAdjust ==
    /\ zones = {}
    /\ rr = {}
    /\ rrStart = rr
    /\ rr0 = rr
    /\ InitHandlers
    /\ domain_filter = <<>>
    /\ arg \in {[fn |-> "adjust_endpoints", endpoints |-> eps] :
                   eps \in SeqsUpTo(AdjustInputs, MaxEndpoints)}
    /\ out = <<>>

\* POST /adjustendpoints with the body arg.endpoints
adjust_endpoints_call ==
    /\ Len(out) = 0
    /\ out' = <<adjust_endpoints(arg.endpoints)>>
    /\ UNCHANGED <<idle_vars, arg>>

\* POST /adjustendpoints once more, with the answer of the first call as body
adjust_endpoints_again ==
    /\ Len(out) = 1
    /\ out' = Append(out, adjust_endpoints(out[1]))
    /\ UNCHANGED <<idle_vars, arg>>

NextAdjust ==
    \/ adjust_endpoints_call
    \/ adjust_endpoints_again

SpecAdjust == InitAdjust /\ [][NextAdjust]_vars

\* ============================================================== the claims
\* The fixed order of the four lists, as the interface documents it.
ListRank == [delete |-> 1, update_old |-> 2, update_new |-> 3, create |-> 4]

ListNames == {"delete", "update_old", "update_new", "create"}

\* the entries of a request body: <<list, place in the list>>
Entries(ch) == UNION {{<<l, j>> : j \in 1..Len(ch[l])} : l \in ListNames}

EntryBefore(a, b) ==
    \/ ListRank[a[1]] < ListRank[b[1]]
    \/ a[1] = b[1] /\ a[2] < b[2]

EndpointOf(ch, e) == ch[e[1]][e[2]]

CallIndexes == 1..Len(calls)

\* the entry was resolved (a lookup answered 2xx) and then PATCHed with
\* success, all before call number k
DoneBefore(e, k) ==
    \E g, m \in 1..(k - 1) :
        /\ g < m
        /\ calls[g].op = "GET" /\ calls[g].entry = e /\ calls[g].result = "ok"
        /\ calls[m].op = "PATCH" /\ calls[m].entry = e /\ calls[m].result = "ok"

\* the entry the handler stands at
CurrentEntry == entry_id(changes, phase, idx)

Failed == resp.status = BAD_GATEWAY

Succeeded == resp.status = NO_CONTENT

\* C1: a backend call for an entry is issued only after every entry that comes
\* before it in the order delete -> updateOld -> updateNew -> create (each list
\* in list order) has been resolved and PATCHed successfully.
C1_FixedOrder ==
    \A k \in CallIndexes :
        /\ calls[k].entry \in Entries(changes)
        /\ \A e \in Entries(changes) :
              EntryBefore(e, calls[k].entry) => DoneBefore(e, k)

\* C1 witness: a call was made for an entry of one list after an entry of an
\* earlier list.
C1_Witness ==
    \E k \in CallIndexes : \E e \in Entries(changes) :
        ListRank[e[1]] < ListRank[calls[k].entry[1]]

\* C2: once an entry's zone resolution or PATCH has failed, no further backend
\* call is issued, so no later entry is attempted.
C2_FailFast ==
    [][ (Failed \/ (Len(calls) > 0 /\ calls[Len(calls)].result = "err"))
            => calls' = calls ]_vars

\* C2 witness: delete = [X], create = [Y]; the resolution of X failed and the
\* request is answered without any call for Y.
C2_Witness ==
    /\ Failed
    /\ Len(changes.delete) = 1 /\ Len(changes.create) = 1
    /\ CurrentEntry = <<"delete", 1>>
    /\ \A k \in CallIndexes : calls[k].op = "GET" /\ calls[k].entry = <<"delete", 1>>

\* ---- the reference the backend state is compared with
\* the zone the lookups of entry e returned
ResolvedZone(e) ==
    LET g == CHOOSE g \in CallIndexes :
                 calls[g].op = "GET" /\ calls[g].entry = e /\ calls[g].result = "ok"
    IN calls[g].zone

EffectiveTtl(ep) == IF ep.record_ttl = 0 THEN DEFAULT_TTL ELSE ep.record_ttl

\* an entry applied to a store: the RRset (zone, FQDN name, type) is absent after
\* a delete / updateOld entry and holds the entry's normalised targets and
\* effective TTL after an updateNew / create entry
ApplyEntry(store, zn, ep, list) ==
    LET fq == ensure_fqdn(ep.dns_name)
        rest == {x \in store : ~(x.zone = zn /\ x.name = fq /\ x.rrtype = ep.record_type)}
    IN IF list \in {"delete", "update_old"} \/ Len(ep.targets) = 0
       THEN rest
       ELSE rest \cup
            { [zone |-> zn, name |-> fq, rrtype |-> ep.record_type,
               ttl |-> EffectiveTtl(ep),
               records |-> [t \in 1..Len(ep.targets) |->
                              [content |-> normalise_target(ep.record_type, ep.targets[t]),
                               disabled |-> FALSE]]] }

\* the entries of ch in the fixed order, as a sequence
OrderedEntries(ch) ==
    [j \in 1..Len(ch.delete) |-> <<"delete", j>>] \o
    [j \in 1..Len(ch.update_old) |-> <<"update_old", j>>] \o
    [j \in 1..Len(ch.update_new) |-> <<"update_new", j>>] \o
    [j \in 1..Len(ch.create) |-> <<"create", j>>]

\* the store after the first n entries were applied, each in its resolved zone
RECURSIVE ApplyFirst(_, _, _)
ApplyFirst(store, ch, n) ==
    IF n = 0 THEN store
    ELSE LET e == OrderedEntries(ch)[n]
         IN ApplyEntry(ApplyFirst(store, ch, n - 1), ResolvedZone(e), EndpointOf(ch, e), e[1])

\* the number of entries before entry e in the fixed order
PlaceOf(ch, e) == Cardinality({x \in Entries(ch) : EntryBefore(x, e)})

OkPatches == {k \in CallIndexes : calls[k].op = "PATCH" /\ calls[k].result = "ok"}

\* C3: a request that aborts at its k-th entry leaves the backend exactly as
\* the entries 1..k-1 applied in order leave it: what was PATCHed stays, and
\* the failed call is the last call of the request (nothing is undone).
C3_NoRollback ==
    Failed =>
        /\ rr = ApplyFirst(rrStart, changes, PlaceOf(changes, CurrentEntry))
        /\ Cardinality(OkPatches) = PlaceOf(changes, CurrentEntry)
        /\ \A k \in CallIndexes : calls[k].result = "err" => k = Len(calls)

\* C3 witness: the request failed after an earlier entry changed the backend.
C3_Witness ==
    /\ Failed
    /\ PlaceOf(changes, CurrentEntry) > 0
    /\ rr # rrStart

AllDone == \A e \in Entries(changes) : DoneBefore(e, Len(calls) + 1)

LastCallFailedFor(e) ==
    /\ Len(calls) > 0
    /\ calls[Len(calls)].entry = e
    /\ calls[Len(calls)].result = "err"

C4_AnswerShape ==
    /\ (pc = "done") <=> (resp.status # 0)
    /\ resp.status \in {0, NO_CONTENT, BAD_GATEWAY}
    /\ Succeeded <=> (pc = "done" /\ AllDone)
    /\ Succeeded => resp.error.kind = "none"
    /\ Failed =>
          /\ resp.error.kind # "none"
          /\ \A e \in Entries(changes) : EntryBefore(e, CurrentEntry) => DoneBefore(e, Len(calls) + 1)
          /\ ~DoneBefore(CurrentEntry, Len(calls) + 1)
          /\ IF LastCallFailedFor(CurrentEntry)
             THEN resp.error = calls[Len(calls)].error
             ELSE /\ resp.error.kind = "no_zone"
                  /\ resp.error.subject = EndpointOf(changes, CurrentEntry).dns_name

\* C4: POST /records answers 204 exactly when every entry of the four lists was
\* resolved and PATCHed with success; otherwise it answers 502 with the error
\* of the first failing entry; it answers once, and an answer never changes.
C4_Answer == [](C4_AnswerShape) /\ [][resp.status # 0 => resp' = resp]_vars

\* C4 witness: a 502 answer after an earlier entry had been PATCHed with success.
C4_Witness ==
    /\ Failed
    /\ resp.error.kind = "patch_status"
    /\ Cardinality(OkPatches) > 0

Patches == {k \in CallIndexes : calls[k].op = "PATCH"}

\* C5: every PATCH carries exactly one RRset, that of its entry, and follows
\* the successful lookup of that same entry, addressed to the zone that lookup
\* returned; no entry is PATCHed twice and no lookup is repeated (no retry); a
\* request answered 204 has issued exactly one PATCH per entry.
C5_OnePatchPerEntry ==
    /\ \A k \in Patches :
          /\ Len(calls[k].rrsets) = 1
          /\ calls[k].rrsets[1].name = ensure_fqdn(EndpointOf(changes, calls[k].entry).dns_name)
          /\ calls[k].rrsets[1].rrtype = EndpointOf(changes, calls[k].entry).record_type
          /\ k > 1
          /\ calls[k - 1].op = "GET"
          /\ calls[k - 1].result = "ok"
          /\ calls[k - 1].entry = calls[k].entry
          /\ calls[k - 1].zone = calls[k].zone
    /\ \A k, m \in Patches : calls[k].entry = calls[m].entry => k = m
    /\ \A k, m \in CallIndexes :
          (calls[k].entry = calls[m].entry /\ calls[k].op = calls[m].op
             /\ calls[k].zone = calls[m].zone) => k = m
    /\ Succeeded => Cardinality(Patches) = Cardinality(Entries(changes))

\* C5 witness: a request of two entries that share a zone was answered 204
\* after two PATCHes to that zone.
C5_Witness ==
    /\ Succeeded
    /\ \E k, m \in Patches : k # m /\ calls[k].zone = calls[m].zone

\* ---- zone resolution
IsSuffix(z, s) == Len(z) <= Len(s) /\ SubSeq(s, Len(s) - Len(z) + 1, Len(s)) = z

\* zone z is the name fq itself or an ancestor of it (a suffix at a label boundary)
OwnsName(z, fq) ==
    /\ IsSuffix(z, fq)
    /\ Len(z) = Len(fq) \/ fq[Len(fq) - Len(z)] = "."

OwningZones(fq) == {z \in zones : OwnsName(z, fq)}

Longest(S) == CHOOSE z \in S : \A y \in S : Len(y) <= Len(z)

\* C6: every PATCH for an endpoint is addressed to the zone that is the longest
\* matching suffix of the endpoint's FQDN among the zones of the backend.
C6_LongestSuffixZone ==
    \A k \in Patches :
        LET fq == ensure_fqdn(EndpointOf(changes, calls[k].entry).dns_name)
        IN /\ OwningZones(fq) # {}
           /\ calls[k].zone = Longest(OwningZones(fq))

\* the lookups made for entry e, as the indexes of their calls
LookupsOf(e) == {k \in CallIndexes : calls[k].op = "GET" /\ calls[k].entry = e}

\* the number of lookups for the same entry up to and including call k
WalkIndex(k) == Cardinality({g \in LookupsOf(calls[k].entry) : g <= k})

\* the name with trailing dots dropped, from its (n+1)-th label on, dot-terminated
RECURSIVE DropLabels(_, _)
DropLabels(name, n) ==
    IF n = 0 THEN name \o <<".">>
    ELSE LET d == FirstIndex(name, ".")
         IN IF d = 0 THEN <<".">> ELSE DropLabels(SubSeq(name, d + 1, Len(name)), n - 1)

LabelCount(name) == Cardinality({k \in 1..Len(name) : name[k] = "."}) + 1

BareName(e) == trim_end_matches(EndpointOf(changes, e).dns_name, ".")

\* the proper ancestor suffixes of the entry's name: 1 .. labelCount-1 labels dropped
AncestorCandidates(e) ==
    {DropLabels(BareName(e), n) : n \in 1..(LabelCount(BareName(e)) - 1)}

\* the walk: the n-th lookup of an entry asks for the name with n labels dropped,
\* and never for the full name or the root
WalkShape ==
    \A k \in CallIndexes : calls[k].op = "GET" =>
        /\ WalkIndex(k) <= LabelCount(BareName(calls[k].entry)) - 1
        /\ calls[k].zone = DropLabels(BareName(calls[k].entry), WalkIndex(k))
        /\ calls[k].zone # <<".">>
        /\ calls[k].zone \in AncestorCandidates(calls[k].entry)

\* C7: zone_for walks the candidates in increasing i and returns the first
\* candidate that exists as a backend zone, querying no candidate after it.
C7_FirstExistingCandidate ==
    /\ WalkShape
    /\ \A k \in CallIndexes : (calls[k].op = "GET" /\ calls[k].result = "ok") =>
          /\ calls[k].zone \in zones
          /\ \A n \in 1..(WalkIndex(k) - 1) :
                DropLabels(BareName(calls[k].entry), n) \notin zones
          /\ \A g \in LookupsOf(calls[k].entry) : g <= k

NoAncestorZone(e) == AncestorCandidates(e) \cap zones = {}

TransportFailed(e) == \E k \in LookupsOf(e) : calls[k].status = 0

\* C8 as stated: zone_for fails with the zone-not-found error whenever no
\* proper ancestor suffix of the name is a backend zone.
C8_AlwaysZoneNotFound ==
    /\ WalkShape
    /\ Succeeded => \A e \in Entries(changes) : ~NoAncestorZone(e)
    /\ (Failed /\ NoAncestorZone(CurrentEntry)) => resp.error.kind = "no_zone"

\* C8 amended: whenever no proper ancestor suffix of the name is a backend
\* zone, zone_for fails and no PATCH is made for the entry: with the
\* zone-not-found error when every lookup was answered, with the transport error
\* of the lookup whose request failed otherwise.  Neither the full name nor the
\* root is ever asked for, and a single-label name causes no lookup at all.
C8_NoAncestorNoZone ==
    /\ WalkShape
    /\ \A e \in Entries(changes) : LabelCount(BareName(e)) = 1 => LookupsOf(e) = {}
    /\ \A k \in CallIndexes : NoAncestorZone(calls[k].entry) =>
          calls[k].op = "GET" /\ calls[k].result # "ok"
    /\ Succeeded => \A e \in Entries(changes) : ~NoAncestorZone(e)
    /\ (Failed /\ NoAncestorZone(CurrentEntry)) =>
          /\ Cardinality(Patches) = PlaceOf(changes, CurrentEntry)
          /\ IF TransportFailed(CurrentEntry)
             THEN resp.error.kind = "transport"
             ELSE /\ resp.error.kind = "no_zone"
                  /\ resp.error.subject = EndpointOf(changes, CurrentEntry).dns_name
                  /\ Cardinality(LookupsOf(CurrentEntry))
                        = LabelCount(BareName(CurrentEntry)) - 1

\* C8 witness: "ab.c" over the zones {"b.c."}: the one ancestor "c." was asked
\* for, answered 404, and the request failed with the zone-not-found error.
C8_Witness ==
    /\ zones = {z_bc}
    /\ Failed
    /\ EndpointOf(changes, CurrentEntry).dns_name = n_ab_c
    /\ resp.error.kind = "no_zone"
    /\ \E k \in LookupsOf(CurrentEntry) : calls[k].zone = z_c /\ calls[k].status = 404

\* C9: every non-2xx answer of the backend becomes an error outcome of the call
\* that carries the HTTP status and the body text.
C9_Non2xxIsError ==
    \A k \in CallIndexes :
        (calls[k].status # 0 /\ ~(calls[k].status \in 200..299)) =>
            /\ calls[k].result = "err"
            /\ calls[k].error.status = calls[k].status
            /\ calls[k].error.body = calls[k].body

\* ---- re-submission
\* the zones zone_for can return for the entry
PossibleZones(ch, e) ==
    LET bare == trim_end_matches(EndpointOf(ch, e).dns_name, ".")
    IN {DropLabels(bare, n) : n \in 1..(LabelCount(bare) - 1)} \cap zones

\* every store one uninterrupted successful application of the first n entries
\* of ch to `store` can end with
RECURSIVE RunOutcomes(_, _, _)
RunOutcomes(store, ch, n) ==
    IF n = 0 THEN {store}
    ELSE LET e == OrderedEntries(ch)[n]
         IN UNION { {ApplyEntry(st, z, EndpointOf(ch, e), e[1]) : z \in PossibleZones(ch, e)} :
                    st \in RunOutcomes(store, ch, n - 1) }

Resubmitted == prev.status # 0

\* C10: when a body is submitted again (after an abort or after a success) and
\* the second submission succeeds, the backend holds what one uninterrupted
\* successful application of the body to the first state leaves; and a second
\* application after a successful one changes nothing.
C10_RetryIsSafe ==
    (Resubmitted /\ Succeeded) =>
        /\ rr \in RunOutcomes(rr0, changes, Len(OrderedEntries(changes)))
        /\ prev.status = NO_CONTENT => rr = rrStart

\* ---- two requests at once
\* the request call number k was made for
Owner(k) == IF k <= Len(owners) THEN owners[k] ELSE task

ChangesOf(t) == IF t = task THEN changes ELSE peer.changes

RespOf(t) == IF t = task THEN resp ELSE peer.resp

\* the successful lookups the same request made for the same entry before call k
OwnLookups(k) ==
    {g \in 1..(k - 1) : /\ Owner(g) = Owner(k)
                        /\ calls[g].op = "GET" /\ calls[g].result = "ok"
                        /\ calls[g].entry = calls[k].entry}

OwnLookupZone(k) == calls[CHOOSE g \in OwnLookups(k) : \A h \in OwnLookups(k) : h <= g].zone

\* the store after the successful PATCHes among the first n calls, each applied
\* as its request's entry in the zone that request resolved, in arrival order
RECURSIVE ArrivalOrder(_, _)
ArrivalOrder(store, n) ==
    IF n = 0 THEN store
    ELSE LET before == ArrivalOrder(store, n - 1)
         IN IF calls[n].op = "PATCH" /\ calls[n].result = "ok"
            THEN ApplyEntry(before, OwnLookupZone(n),
                            EndpointOf(ChangesOf(Owner(n)), calls[n].entry), calls[n].entry[1])
            ELSE before

OwnOkPatches(t) == {k \in OkPatches : Owner(k) = t}

\* every store the two bodies applied one whole batch after the other can leave
SerialOutcomes(first, second) ==
    UNION { RunOutcomes(st, second, Len(OrderedEntries(second))) :
            st \in RunOutcomes(rr0, first, Len(OrderedEntries(first))) }

\* C11: two POST /records batches in flight share nothing but the backend:
\* every PATCH goes to the zone its own request resolved for that entry,
\* whatever the other request did in between; the backend holds what the
\* PATCHes leave applied in the order they arrived, so that each RRset has the
\* content of the PATCH that reached the backend last; and each request is
\* answered 204 only after one successful PATCH for each of its own entries.
C11_LastPatchWins ==
    /\ \A k \in Patches :
          /\ calls[k].entry \in Entries(ChangesOf(Owner(k)))
          /\ OwnLookups(k) # {}
          /\ calls[k].zone = OwnLookupZone(k)
    /\ rr = ArrivalOrder(rr0, Len(calls))
    /\ \A t \in {1, 2} :
          RespOf(t).status = NO_CONTENT =>
              Cardinality(OwnOkPatches(t)) = Cardinality(Entries(ChangesOf(t)))

\* C11 witness: both requests were answered 204, their calls interleaved, and
\* the backend equals neither serial order of the two whole batches.
C11_Witness ==
    /\ RespOf(1).status = NO_CONTENT
    /\ RespOf(2).status = NO_CONTENT
    /\ \E k, m, n \in Patches : k < m /\ m < n /\ Owner(k) = Owner(n) /\ Owner(m) # Owner(k)
    /\ rr \notin SerialOutcomes(ChangesOf(1), ChangesOf(2))
    /\ rr \notin SerialOutcomes(ChangesOf(2), ChangesOf(1))

\* ---- what is sent
\* the name with one dot appended unless it ends with one
DotEnsured(name) ==
    IF Len(name) > 0 /\ name[Len(name)] = "." THEN name ELSE name \o <<".">>

\* C12: the PATCH of a delete or updateOld entry carries changeType DELETE, no
\* records, the dot-ensured name and the entry's type, whatever targets the
\* entry has; the PATCH of an updateNew or create entry carries the build_rrset
\* conversion of the entry with changeType REPLACE.
C12_PatchContent ==
    \A k \in Patches :
        LET ep == EndpointOf(changes, calls[k].entry)
            r == calls[k].rrsets[1]
        IN IF calls[k].entry[1] \in {"delete", "update_old"}
           THEN /\ r.changetype = "DELETE"
                /\ r.records = <<>>
                /\ r.name = DotEnsured(ep.dns_name)
                /\ r.rrtype = ep.record_type
           ELSE /\ r.changetype = "REPLACE"
                /\ r = build_rrset(ep, DEFAULT_TTL, "REPLACE")
                /\ Len(r.records) = Len(ep.targets)

\* C12 witness: a request whose delete entry has targets and whose create
\* entry was PATCHed too.
C12_Witness ==
    \E k, m \in Patches :
        /\ calls[k].entry[1] = "delete"
        /\ Len(EndpointOf(changes, calls[k].entry).targets) > 0
        /\ calls[m].entry[1] = "create"
        /\ Len(calls[m].rrsets[1].records) > 0

\* ---- conversions
Normalised == arg.fn = "normalise_target" /\ Len(out) >= 1

Built == arg.fn = "build_rrset" /\ Len(out) >= 1

\* C13: build_rrset yields the endpoint's recordTTL when that is nonzero and
\* the default TTL otherwise, the name with one dot appended unless it ends
\* with one, one record per target in target order, each the target normalised
\* for the endpoint's type and none disabled, and the type and changeType given.
C13_BuildRrset ==
    Built =>
        LET ep == arg.ep
            r == out[1]
        IN /\ r.ttl = (IF ep.record_ttl # 0 THEN ep.record_ttl ELSE arg.default_ttl)
           /\ r.name = DotEnsured(ep.dns_name)
           /\ r.rrtype = ep.record_type
           /\ r.changetype = arg.changetype
           /\ Len(r.records) = Len(ep.targets)
           /\ \A k \in 1..Len(ep.targets) :
                 /\ r.records[k].content = normalise_target(ep.record_type, ep.targets[k])
                 /\ r.records[k].disabled = FALSE

\* C13 witness: an endpoint without TTL and with two targets of a name-valued
\* type was converted: the default TTL and two dot-terminated records.
C13_Witness ==
    /\ Built
    /\ arg.ep.record_ttl = 0 /\ out[1].ttl = DEFAULT_TTL
    /\ arg.ep.record_type = "CNAME"
    /\ arg.ep.targets = << <<"h">>, <<"h", ".">> >>
    /\ out[1].records[1].content = <<"h", ".">>
    /\ out[1].name = n_abc_dot /\ arg.ep.dns_name = n_abc

\* C14: HTTPS normalisation is idempotent: normalising a normalised target
\* again yields the same string.
C14_HttpsIdempotent ==
    (arg.fn = "normalise_target" /\ arg.record_type = "HTTPS" /\ Len(out) = 2) =>
        out[2] = out[1]

\* the target without leading and trailing spaces, and its first field
Trimmed(s) == trim(s)

FirstField(s) ==
    LET k == FirstIndex(Trimmed(s), " ")
    IN IF k = 0 THEN Trimmed(s) ELSE SubSeq(Trimmed(s), 1, k - 1)

AfterFirstField(s) ==
    LET k == FirstIndex(Trimmed(s), " ")
    IN IF k = 0 THEN <<>> ELSE SubSeq(Trimmed(s), k, Len(Trimmed(s)))

\* C15: an HTTPS target whose first field is no u16 (and not empty) is
\* normalised as "1 " put before it is: priority 1, the first field with a dot
\* ensured as target name, and the remaining text unchanged as params.
C15_PriorityOmitted ==
    (/\ Normalised /\ arg.record_type = "HTTPS"
     /\ Len(FirstField(arg.target)) > 0
     /\ ~parse_u16_is_ok(FirstField(arg.target))) =>
        /\ out[1] = normalise_target("HTTPS", <<"1", " ">> \o Trimmed(arg.target))
        /\ out[1] = <<"1", " ">> \o DotEnsured(FirstField(arg.target))
                        \o AfterFirstField(arg.target)

\* C16: normalise_target returns the target unchanged for A, AAAA and TXT, and
\* for every other type but HTTPS it returns the target unchanged when it ends
\* with a dot and with one dot appended otherwise.
C16_NormaliseTarget ==
    Normalised =>
        /\ arg.record_type \in {"A", "AAAA", "TXT"} => out[1] = arg.target
        /\ arg.record_type \notin {"A", "AAAA", "TXT", "HTTPS"} =>
              /\ out[1] = DotEnsured(arg.target)
              /\ out[1][Len(out[1])] = "."
              /\ Len(out[1]) \in {Len(arg.target), Len(arg.target) + 1}

\* C16 witness: an MX target without trailing dot got one.
C16_Witness ==
    /\ Normalised
    /\ arg.record_type = "MX"
    /\ arg.target = <<"1", " ", "h">>
    /\ out[1] = <<"1", " ", "h", ".">>

\* the name without its trailing dots
RECURSIVE StripDots(_)
StripDots(name) ==
    IF Len(name) > 0 /\ name[Len(name)] = "." THEN StripDots(SubSeq(name, 1, Len(name) - 1))
    ELSE name

ReadBack == arg.fn = "build_rrset" /\ Len(out) = 2

NormalisedTargets(ep) ==
    [k \in 1..Len(ep.targets) |-> normalise_target(ep.record_type, ep.targets[k])]

\* C17 as stated: reading build_rrset(e, ttl, "REPLACE") back reproduces
\* e.dnsName, e.recordType and e.targets up to normalisation, for every e
\* (here: every e that has a target, read with no domain filter).
C17_RoundTrip ==
    (ReadBack /\ domain_filter = <<>> /\ Len(arg.ep.targets) > 0) =>
        /\ Len(out[2]) = 1
        /\ out[2][1].dns_name = arg.ep.dns_name
        /\ out[2][1].record_type = arg.ep.record_type
        /\ out[2][1].targets = NormalisedTargets(arg.ep)

PassesFilter(name) ==
    domain_filter = <<>> \/ \E d \in 1..Len(domain_filter) : IsSuffix(domain_filter[d], name)

\* C17 amended: for an endpoint e of type A, AAAA, CNAME, TXT or HTTPS that has
\* a target and whose name passes the domain filter, reading
\* build_rrset(e, ttl, "REPLACE") back yields one endpoint with e.recordType,
\* e.targets normalised in order and e.dnsName without its trailing dots
\* (e.dnsName itself when it has none); for any other e it yields no endpoint.
C17_RoundTripManaged ==
    ReadBack =>
        IF /\ arg.ep.record_type \in {"A", "AAAA", "CNAME", "TXT", "HTTPS"}
           /\ Len(arg.ep.targets) > 0
           /\ PassesFilter(StripDots(arg.ep.dns_name))
        THEN /\ Len(out[2]) = 1
             /\ out[2][1].dns_name = StripDots(arg.ep.dns_name)
             /\ ~ends_with(arg.ep.dns_name, ".") => out[2][1].dns_name = arg.ep.dns_name
             /\ out[2][1].record_type = arg.ep.record_type
             /\ out[2][1].targets = NormalisedTargets(arg.ep)
        ELSE out[2] = <<>>

\* C17 witness: an HTTPS endpoint named with a trailing dot and given an
\* under-specified target was read back under its name without the dot.
C17_Witness ==
    /\ ReadBack
    /\ arg.ep.dns_name = n_abc_dot
    /\ arg.ep.record_type = "HTTPS"
    /\ arg.ep.targets = << <<"h">> >>
    /\ Len(out[2]) = 1
    /\ out[2][1].dns_name = n_abc
    /\ out[2][1].targets = << <<"1", " ", "h", ".">> >>

\* ---- the catalog read
\* the listing GET /zones is the first call of a GET /records request
ListingDone == Len(calls) >= 1

ListingOk == ListingDone /\ calls[1].result = "ok"

\* the RRsets call k fetched (none when the fetch failed)
FetchedBy(k) == IF calls[k].result = "ok" THEN calls[k].body.value ELSE <<>>

ManagedTypes == {"A", "AAAA", "CNAME", "TXT", "HTTPS"}

\* the contents of the records that are not disabled, in record order
RECURSIVE EnabledTargets(_)
EnabledTargets(records) ==
    IF records = <<>> THEN <<>>
    ELSE IF records[1].disabled THEN EnabledTargets(Tail(records))
    ELSE <<records[1].content>> \o EnabledTargets(Tail(records))

\* the RRset is one the catalog lists
Emits(r) ==
    /\ r.rrtype \in ManagedTypes
    /\ PassesFilter(StripDots(r.name))
    /\ \E k \in 1..Len(r.records) : ~r.records[k].disabled

\* the endpoints of a sequence of RRsets, one per listed RRset, in order
RECURSIVE ListedFrom(_)
ListedFrom(rrsets) ==
    IF rrsets = <<>> THEN <<>>
    ELSE (IF Emits(rrsets[1])
          THEN << [dns_name |-> StripDots(rrsets[1].name), record_type |-> rrsets[1].rrtype,
                   targets |-> EnabledTargets(rrsets[1].records),
                   record_ttl |-> rrsets[1].ttl] >>
          ELSE <<>>)
         \o ListedFrom(Tail(rrsets))

\* the endpoints of the zones fetched with success among the first n stubs
RECURSIVE ListedUpTo(_)
ListedUpTo(n) ==
    IF n = 0 THEN <<>> ELSE ListedUpTo(n - 1) \o ListedFrom(FetchedBy(n + 1))

\* C18: once the zones are listed, a zone whose fetch fails is skipped: every
\* listed zone is fetched exactly once, in list order, whichever fetches
\* failed, and the request is answered 200 with exactly the endpoints of the
\* zones fetched with success, in zone-list order.
C18_ZoneFailureSkipped ==
    ListingOk =>
        /\ Len(calls) <= 1 + Len(listed)
        /\ \A k \in 2..Len(calls) : calls[k].zone = listed[k - 1]
        /\ endpoints = ListedUpTo(Len(calls) - 1)
        /\ pc = "done" =>
              /\ Len(calls) = 1 + Len(listed)
              /\ resp.status = OK
              /\ resp.body = ListedUpTo(Len(listed))

\* C18 witness: of two listed zones the first could not be fetched, the second
\* was, and its endpoints are the answer.
C18_Witness ==
    /\ pc = "done"
    /\ Len(listed) = 2
    /\ calls[2].result = "err"
    /\ calls[3].result = "ok"
    /\ resp.status = OK
    /\ Len(resp.body) > 0

\* C19: GET /records answers 500 with the error exactly when the zone listing
\* failed, and then no zone was fetched and nothing was collected; otherwise it
\* answers 200 with an endpoint array.
C19_ListingFailure ==
    /\ pc # "done" => resp.status = 0
    /\ pc = "done" =>
          /\ ListingDone
          /\ resp.status \in {OK, INTERNAL_SERVER_ERROR}
          /\ resp.status = INTERNAL_SERVER_ERROR <=> calls[1].result = "err"
          /\ resp.status = INTERNAL_SERVER_ERROR =>
                /\ resp.error = calls[1].error
                /\ resp.error.kind \in {"list_transport", "list_status", "list_decode"}
                /\ Len(calls) = 1
                /\ endpoints = <<>>
          /\ resp.status = OK =>
                /\ resp.error.kind = "none"
                /\ resp.body = endpoints

\* C19 witness: GET /zones was answered 503 and GET /records answered 500 with
\* that status in the error, although the backend holds zones with RRsets.
C19_Witness ==
    /\ pc = "done"
    /\ resp.status = INTERNAL_SERVER_ERROR
    /\ resp.error.kind = "list_status"
    /\ resp.error.status = 503
    /\ rr # {}

\* the RRsets of all zones fetched with success, in fetch order
RECURSIVE FetchedUpTo(_)
FetchedUpTo(n) == IF n = 0 THEN <<>> ELSE FetchedUpTo(n - 1) \o FetchedBy(n + 1)

RECURSIVE Keep(_)
Keep(rrsets) ==
    IF rrsets = <<>> THEN <<>>
    ELSE (IF Emits(rrsets[1]) THEN <<rrsets[1]>> ELSE <<>>) \o Keep(Tail(rrsets))

\* C20: the answer holds one endpoint for each fetched RRset of a managed type
\* that passes the domain filter and has a record that is not disabled, and
\* none for any other RRset; the endpoint has the RRset's name without
\* trailing dot, its type, and the contents of its non-disabled records only,
\* in record order.
C20_OneEndpointPerRrset ==
    (pc = "done" /\ resp.status = OK) =>
        LET kept == Keep(FetchedUpTo(Len(calls) - 1))
        IN /\ Len(resp.body) = Len(kept)
           /\ \A j \in 1..Len(kept) :
                 /\ resp.body[j].dns_name = StripDots(kept[j].name)
                 /\ resp.body[j].record_type = kept[j].rrtype
                 /\ resp.body[j].targets = EnabledTargets(kept[j].records)
                 /\ Len(resp.body[j].targets) > 0
                 /\ \A t \in 1..Len(kept[j].records) :
                       kept[j].records[t].disabled =>
                           \A u \in 1..Len(resp.body[j].targets) :
                               resp.body[j].targets[u] # kept[j].records[t].content

\* C20 witness: the A RRset with one enabled and one disabled record was listed
\* as one endpoint with the one target, and an unmanaged RRset fetched with it
\* was not listed.
C20_Witness ==
    /\ pc = "done" /\ resp.status = OK
    /\ domain_filter = <<>>
    /\ \E k \in 2..Len(calls) :
          /\ calls[k].result = "ok"
          /\ Len(calls[k].body.value) = 2
          /\ \E a, b \in 1..2 : /\ calls[k].body.value[a].rrtype = "A"
                                 /\ calls[k].body.value[b].rrtype = "SOA"
    /\ resp.body = << [dns_name |-> n_abc, record_type |-> "A", targets |-> << <<"1">> >>,
                       record_ttl |-> 60] >>

\* the RRset is in the answer: an endpoint with its name and type
Listed(r) ==
    \E j \in 1..Len(resp.body) :
        resp.body[j].dns_name = StripDots(r.name) /\ resp.body[j].record_type = r.rrtype

\* C21: with a non-empty domain filter a fetched RRset (of a managed type, with
\* an enabled record) is listed exactly when its name without trailing dot has
\* a filter entry as plain string suffix, label boundary or not; with an empty
\* filter none is left out; the filter never holds an empty entry.
C21_SuffixFilter ==
    /\ \A d \in 1..Len(domain_filter) : Len(domain_filter[d]) > 0
    /\ (pc = "done" /\ resp.status = OK) =>
          LET fetched == FetchedUpTo(Len(calls) - 1)
          IN \A k \in 1..Len(fetched) :
                LET r == fetched[k]
                    name == StripDots(r.name)
                IN (r.rrtype \in ManagedTypes /\ EnabledTargets(r.records) # <<>>) =>
                      (Listed(r) <=>
                          \/ domain_filter = <<>>
                          \/ \E d \in 1..Len(domain_filter) :
                                /\ Len(domain_filter[d]) <= Len(name)
                                /\ \A c \in 1..Len(domain_filter[d]) :
                                      name[Len(name) - Len(domain_filter[d]) + c]
                                          = domain_filter[d][c])

\* C21 witness: under the filter "b.c" the fetched "ab.c." is listed although
\* "b.c" does not start at a label of it, and the fetched "d.c." is not.
C21_Witness ==
    /\ pc = "done" /\ resp.status = OK
    /\ domain_filter = << <<"b", ".", "c">> >>
    /\ \E k \in 2..Len(calls) :
          /\ calls[k].result = "ok"
          /\ \E a, b \in 1..Len(calls[k].body.value) :
                /\ calls[k].body.value[a].name = <<"a", "b", ".", "c", ".">>
                /\ calls[k].body.value[b].name = <<"d", ".", "c", ".">>
    /\ \E j \in 1..Len(resp.body) : resp.body[j].dns_name = n_ab_c
    /\ \A j \in 1..Len(resp.body) : resp.body[j].dns_name # <<"d", ".", "c">>

\* ---------------------------------------------------------------- C22..C25
\* the endpoints posted and the endpoints answered by the first call
Posted == arg.endpoints
Adjusted == out[1]

\* the value of the directive of that name, <<>> when the endpoint has none
Directive(ep, name) == find_provider_specific(ep.provider_specific, name)

\* C22: every HTTPS endpoint with a directive named pdns-https-target comes
\* back with exactly one target, the directive's value normalised as an HTTPS
\* target (priority ensured, target name ending in a dot), whatever targets it had.
C22_DirectiveBecomesTarget ==
    (arg.fn = "adjust_endpoints" /\ Len(out) >= 1) =>
        \A k \in 1..Len(Posted) :
            (Posted[k].record_type = "HTTPS"
               /\ Directive(Posted[k], "pdns-https-target") # <<>>) =>
                Adjusted[k].targets =
                    <<normalise_https_target(Directive(Posted[k], "pdns-https-target")[1])>>

\* C23: adjusting is idempotent: adjust_endpoints applied to its own answer
\* returns that answer, whatever list of endpoints was posted.
C23_AdjustIdempotent ==
    (arg.fn = "adjust_endpoints" /\ Len(out) = 2) => out[2] = out[1]

\* the endpoint has the directive adjust_endpoints looks up
HasDirective(ep) == Directive(ep, HTTPS_TARGET_ANNOTATION) # <<>>

\* all fields but the targets are those of the posted endpoint
SameButTargets(a, b) ==
    /\ a.dns_name = b.dns_name
    /\ a.record_type = b.record_type
    /\ a.record_ttl = b.record_ttl
    /\ a.provider_specific = b.provider_specific

PrefixChecked(k) ==
    /\ Posted[k].record_type = "HTTPS"
    /\ ~HasDirective(Posted[k])
    /\ Posted[k].targets # <<>>

KeyOf(ch, e) == <<ensure_fqdn(EndpointOf(ch, e).dns_name), EndpointOf(ch, e).record_type>>

\* the last entry of the body for that key, in the fixed order
LastEntryFor(ch, key) ==
    CHOOSE e \in Entries(ch) :
        /\ KeyOf(ch, e) = key
        /\ \A x \in Entries(ch) : KeyOf(ch, x) = key => (x = e \/ EntryBefore(x, e))

\* what the backend holds under the key: the TTL and records of every stored
\* RRset of that name and type
ContentOf(store, key) ==
    {[ttl |-> x.ttl, records |-> x.records] : x \in {y \in store : y.name = key[1] /\ y.rrtype = key[2]}}

\* what the entry alone leaves under its key: nothing after a delete or
\* updateOld entry (or an upsert without targets), its normalised targets and
\* effective TTL after an updateNew or create entry
ContentAfter(ch, e) ==
    LET ep == EndpointOf(ch, e)
    IN IF e[1] \in {"delete", "update_old"} \/ Len(ep.targets) = 0
       THEN {}
       ELSE {[ttl |-> EffectiveTtl(ep),
              records |-> [t \in 1..Len(ep.targets) |->
                             Record(normalise_target(ep.record_type, ep.targets[t]), FALSE)]]}

\* C26: after a request answered 204, with no other writer, the backend holds
\* under every key (FQDN name, type) the request touched exactly what the last
\* entry for that key leaves: nothing if it is a delete or updateOld entry, its
\* normalised targets and effective TTL otherwise.
C26_LastEntryWins ==
    (pc = "done" /\ Succeeded) =>
        \A e \in Entries(changes) :
            ContentOf(rr, KeyOf(changes, e)) =
                ContentAfter(changes, LastEntryFor(changes, KeyOf(changes, e)))

====
